---- MODULE Spec2Model ----
(***************************************************************************)
(* Model of beam_errors/sources.py: the sky model parser (Skymodel), the   *)
(* coordinate parsers and the spectral-index brightness functions.         *)
(*                                                                         *)
(* Text is modelled character by character: a Python str is a sequence of  *)
(* one-character strings, so that split, strip, replace, lower, substring  *)
(* search and the numeric conversions are computed, not assumed.           *)
(*                                                                         *)
(* Numbers: the field texts of the model are integer-valued decimal        *)
(* literals (optionally with a non-negative exponent, as in 60e6), on which*)
(* Python's float() and the arithmetic below are exact.  Angles are kept   *)
(* in the smallest unit the code's formula produces for such input:        *)
(* right ascension in 1/240 degree, declination in 1/3600 degree.  A       *)
(* brightness is kept as mant * 10^exp10, the frequencies of the calls     *)
(* being whole decades above the reference frequency of the source.        *)
(***************************************************************************)
EXTENDS Integers, Sequences, FiniteSets, TLC

VARIABLES pc, formatstring, items, elements, inputline, error, result

vars == <<pc, formatstring, items, elements, inputline, error, result>>

(***************************************************************************)
(* Python str and number primitives                                        *)
(***************************************************************************)
Digits == {"0", "1", "2", "3", "4", "5", "6", "7", "8", "9"}

DigitVal(c) ==
    CASE c = "0" -> 0 [] c = "1" -> 1 [] c = "2" -> 2 [] c = "3" -> 3
      [] c = "4" -> 4 [] c = "5" -> 5 [] c = "6" -> 6 [] c = "7" -> 7
      [] c = "8" -> 8 [] c = "9" -> 9

\* str.lower() on one character (the letters that occur in the model's texts)
LowerChar(c) ==
    CASE c = "A" -> "a" [] c = "B" -> "b" [] c = "C" -> "c" [] c = "D" -> "d"
      [] c = "E" -> "e" [] c = "F" -> "f" [] c = "G" -> "g" [] c = "H" -> "h"
      [] c = "I" -> "i" [] c = "J" -> "j" [] c = "K" -> "k" [] c = "L" -> "l"
      [] c = "M" -> "m" [] c = "N" -> "n" [] c = "O" -> "o" [] c = "P" -> "p"
      [] c = "Q" -> "q" [] c = "R" -> "r" [] c = "S" -> "s" [] c = "T" -> "t"
      [] c = "U" -> "u" [] c = "V" -> "v" [] c = "W" -> "w" [] c = "X" -> "x"
      [] c = "Y" -> "y" [] c = "Z" -> "z" [] OTHER -> c

Lower(s) == [k \in 1..Len(s) |-> LowerChar(s[k])]

\* s.replace(c, "")
RemoveChar(s, c) == SelectSeq(s, LAMBDA ch : ch # c)

RECURSIVE LStrip(_, _)
LStrip(s, cs) == IF s # <<>> /\ s[1] \in cs THEN LStrip(Tail(s), cs) ELSE s

RECURSIVE RStrip(_, _)
RStrip(s, cs) ==
    IF s # <<>> /\ s[Len(s)] \in cs THEN RStrip(SubSeq(s, 1, Len(s) - 1), cs) ELSE s

\* s.strip(chars)
Strip(s, cs) == RStrip(LStrip(s, cs), cs)

\* s.split(c): always at least one field, "" splits into [""]
RECURSIVE Split(_, _)
Split(s, c) ==
    LET hits == {k \in 1..Len(s) : s[k] = c}
    IN  IF hits = {} THEN <<s>>
        ELSE LET k == CHOOSE h \in hits : \A g \in hits : h <= g
             IN  <<SubSeq(s, 1, k - 1)>> \o Split(SubSeq(s, k + 1, Len(s)), c)

\* sep.join(parts)
RECURSIVE Join(_, _)
Join(parts, sep) ==
    IF parts = <<>> THEN <<>>
    ELSE IF Len(parts) = 1 THEN parts[1]
    ELSE parts[1] \o sep \o Join(Tail(parts), sep)

\* sub in s
Contains(sub, s) ==
    \E k \in 0..(Len(s) - Len(sub)) : SubSeq(s, k + 1, k + Len(sub)) = sub

\* s.startswith(p)
StartsWith(s, p) == Len(s) >= Len(p) /\ SubSeq(s, 1, Len(p)) = p

RECURSIVE Pow(_, _)
Pow(b, n) == IF n = 0 THEN 1 ELSE b * Pow(b, n - 1)

Abs(n) == IF n < 0 THEN -n ELSE n

RECURSIVE DigitsVal(_)
DigitsVal(s) ==
    IF s = <<>> THEN 0
    ELSE DigitsVal(SubSeq(s, 1, Len(s) - 1)) * 10 + DigitVal(s[Len(s)])

AllDigits(s) == s # <<>> /\ \A k \in 1..Len(s) : s[k] \in Digits

\* np.sign
Sign(n) == IF n > 0 THEN 1 ELSE IF n < 0 THEN -1 ELSE 0

(***************************************************************************)
(* Exceptions: an evaluation yields its value (err = "none") or the type   *)
(* of the exception it raises.                                             *)
(***************************************************************************)
Ok(v) == [err |-> "none", val |-> v]

Raise(e) == [err |-> e, val |-> 0]

\* r, then F on its value: an exception raised by r propagates
Try(r, F(_)) == IF r.err = "none" THEN F(r.val) ELSE r

\* try: r  except e: handler
Except(r, e, handler) == IF r.err = e THEN handler ELSE r

\* the sign a numeric literal starts with, and the literal without it
SignOf(s) == IF s # <<>> /\ s[1] = "-" THEN -1 ELSE 1

Unsigned(s) == IF s # <<>> /\ s[1] \in {"+", "-"} THEN Tail(s) ELSE s

\* int(s): an optional sign and decimal digits, ValueError otherwise
ParseInt(s) ==
    IF AllDigits(Unsigned(s)) THEN Ok(SignOf(s) * DigitsVal(Unsigned(s)))
    ELSE Raise("ValueError")

\* the value of sign, mantissa digits and an optional exponent
FloatOf(sign, parts) ==
    IF Len(parts) = 1 /\ AllDigits(parts[1]) THEN Ok(sign * DigitsVal(parts[1]))
    ELSE IF Len(parts) = 2 /\ AllDigits(parts[1])
                           /\ AllDigits(LStrip(parts[2], {"+"}))
                           /\ Len(parts[2]) - Len(LStrip(parts[2], {"+"})) <= 1
    THEN Ok(sign * DigitsVal(parts[1]) * Pow(10, DigitsVal(LStrip(parts[2], {"+"}))))
    ELSE Raise("ValueError")

\* float(s) on integer-valued literals: [sign] digits [ e [+] digits ];
\* ValueError on the empty string and on text that is no number
ParseFloat(s) == FloatOf(SignOf(s), Split(Unsigned(s), "e"))

(***************************************************************************)
(* Source: coordinate parsers                                              *)
(***************************************************************************)
\* HA, min, sec = right_ascension_string.split(":") and the lines after it
RightAscensionOf(parts) ==
    IF Len(parts) # 3 THEN Raise("ValueError")
    ELSE IF parts[1] = <<>> THEN Raise("IndexError")
    ELSE Try(ParseInt(parts[1]), LAMBDA HA :
         Try(ParseInt(parts[2]), LAMBDA min :
         Try(ParseFloat(parts[3]), LAMBDA sec :
             Ok((IF parts[1][1] = "-" THEN -1 ELSE 1)
                    * (Abs(HA) * 3600 + min * 60 + sec)))))

\* Source.parse_right_ascension, result in 1/240 degree
parse_right_ascension(right_ascension_string) ==
    RightAscensionOf(Split(Strip(right_ascension_string, {" "}), ":"))

\* fields = declination_string.split(".") and the lines after it
DeclinationOf(fields) ==
    Try(ParseInt(fields[1]), LAMBDA deg :
    Try(IF Len(fields) < 2 THEN Raise("IndexError") ELSE ParseInt(fields[2]), LAMBDA min :
    Try(ParseFloat(Join(SubSeq(fields, 3, Len(fields)), <<".">>)), LAMBDA sec :
        Ok(Sign(deg) * (Abs(deg) * 3600 + min * 60 + sec)))))

\* Source.parse_declination, result in 1/3600 degree
parse_declination(declination_string) ==
    DeclinationOf(Split(Strip(RemoveChar(declination_string, " "), {"+"}), "."))

(***************************************************************************)
(* Source: brightness functions                                            *)
(***************************************************************************)
MaxDecades == 1

\* np.log10(frequency / reference_frequency), for a frequency that lies a
\* whole number of decades above the reference frequency
Log10Ratio(frequency, reference_frequency) ==
    CHOOSE k \in 0..MaxDecades : frequency = reference_frequency * Pow(10, k)

\* sum(float(c) * base ** i for i, c in enumerate(spectral_index)), from
\* index i on; float(c) raises at the first entry that is no number
RECURSIVE SumTerms(_, _, _)
SumTerms(spectral_index, i, base) ==
    IF i >= Len(spectral_index) THEN Ok(0)
    ELSE Try(ParseFloat(spectral_index[i + 1]), LAMBDA c :
         Try(SumTerms(spectral_index, i + 1, base), LAMBDA rest :
             Ok(c * Pow(base, i) + rest)))

\* brightness * x ** exponent for x = 10^k, kept as mant * 10^exp10
LogarithmicShape(brightness, k, coefficients) ==
    Try(SumTerms(coefficients, 0, k), LAMBDA exponent :
        Ok([mant |-> brightness, exp10 |-> k * exponent]))

\* Source.logarithmic_spectral_index_brightness
logarithmic_spectral_index_brightness(frequency, brightness, reference_frequency, spectral_index) ==
    IF reference_frequency = 0 THEN Raise("ZeroDivisionError")
    ELSE LogarithmicShape(brightness, Log10Ratio(frequency, reference_frequency),
                          Split(Strip(spectral_index, {"[", "]"}), ","))

\* brightness + spectral_shape
LinearShape(brightness, x, coefficients) ==
    Try(SumTerms(coefficients, 0, x), LAMBDA spectral_shape :
        Ok([mant |-> brightness + spectral_shape, exp10 |-> 0]))

\* Source.linear_spectral_index_brightness
linear_spectral_index_brightness(frequency, brightness, reference_frequency, spectral_index) ==
    IF reference_frequency = 0 THEN Raise("ZeroDivisionError")
    ELSE LinearShape(brightness,
                     Pow(10, Log10Ratio(frequency, reference_frequency)) - 1,
                     Split(Strip(spectral_index, {"[", "]"}), ","))

\* Source.__init__ as it would be if the coefficients were converted at
\* construction instead of inside the brightness function
Source_Eager(right_ascension, declination, brightness, reference_frequency, spectral_index, logSI) ==
    Try(parse_right_ascension(right_ascension), LAMBDA ra :
    Try(parse_declination(declination), LAMBDA dec :
    Try(SumTerms(Split(Strip(spectral_index, {"[", "]"}), ","), 0, 0), LAMBDA shape :
        Ok([ra |-> ra, dec |-> dec, logSI |-> logSI, brightness |-> brightness,
            reference_frequency |-> reference_frequency,
            spectral_index |-> spectral_index]))))

\* Source.__init__: the coordinates are parsed at construction; the
\* brightness function I closes over the unparsed spectral index text
Source(right_ascension, declination, brightness, reference_frequency, spectral_index, logSI) ==
    Try(parse_right_ascension(right_ascension), LAMBDA ra :
    Try(parse_declination(declination), LAMBDA dec :
        Ok([ra |-> ra, dec |-> dec, logSI |-> logSI, brightness |-> brightness,
            reference_frequency |-> reference_frequency,
            spectral_index |-> spectral_index])))

\* source.I(v)
I(source, v) ==
    IF source.logSI
    THEN logarithmic_spectral_index_brightness(
             v, source.brightness, source.reference_frequency, source.spectral_index)
    ELSE linear_spectral_index_brightness(
             v, source.brightness, source.reference_frequency, source.spectral_index)

(***************************************************************************)
(* Patch                                                                   *)
(***************************************************************************)
\* Patch.__init__
Patch(patch_right_ascension, patch_declination) ==
    Try(parse_right_ascension(patch_right_ascension), LAMBDA ra :
    Try(parse_declination(patch_declination), LAMBDA dec :
        Ok([elements |-> <<>>, ra |-> ra, dec |-> dec])))

\* Patch.add_source: self.elements[source_name] = Source(...)
add_source(patch, source_name, right_ascension, declination, brightness, reference_frequency, spectral_index, logSI) ==
    Try(Source(right_ascension, declination, brightness, reference_frequency,
               spectral_index, logSI),
        LAMBDA source :
            Ok([patch EXCEPT !.elements = (source_name :> source) @@ patch.elements]))

(***************************************************************************)
(* Skymodel.parse_formatstring                                             *)
(***************************************************************************)
list_of_itemnames ==
    <<"name", "patch", "ra", "dec", "i", "referencefrequency", "spectralindex",
      "logarithmicsi">>

\* the characters of an item name
Chars(itemname) ==
    CASE itemname = "name" -> <<"n","a","m","e">>
      [] itemname = "patch" -> <<"p","a","t","c","h">>
      [] itemname = "ra" -> <<"r","a">>
      [] itemname = "dec" -> <<"d","e","c">>
      [] itemname = "i" -> <<"i">>
      [] itemname = "referencefrequency" ->
           <<"r","e","f","e","r","e","n","c","e","f","r","e","q","u","e","n","c","y">>
      [] itemname = "spectralindex" ->
           <<"s","p","e","c","t","r","a","l","i","n","d","e","x">>
      [] itemname = "logarithmicsi" ->
           <<"l","o","g","a","r","i","t","h","m","i","c","s","i">>

\* Skippable as it would be with "dec" added to the names that may be absent
Skippable_Dec(itemname) ==
    itemname = "spectralindex" \/ itemname = "logarithmicsi" \/ itemname = "dec"

\* the item names whose absence from the header is skipped
Skippable(itemname) == itemname = "spectralindex" \/ itemname = "logarithmicsi"

IntItem(n) == [type |-> "int", val |-> n]

FloatItem(x) == [type |-> "float", val |-> x]

\* the positions of the fields that contain the item name
Matching(itemname, fields) ==
    {j \in 1..Len(fields) : Contains(Chars(itemname), fields[j])}

Least(S) == CHOOSE j \in S : \A g \in S : j <= g

\* the characters kept of the default reference frequency
IsNumberChar(ch) == ch \in Digits \/ ch = "e" \/ ch = "-"

RECURSIVE FillItems(_, _, _)
RECURSIVE FillItem(_, _, _, _)
RECURSIVE FillDefault(_, _, _, _)

\* the loop over list_of_itemnames from its k-th name on; acc is self.items,
\* which an exception leaves as far as it was filled
FillItems(k, fields, acc) ==
    IF k > Len(list_of_itemnames) THEN Ok(acc)
    ELSE FillItem(k, fields, acc, Matching(list_of_itemnames[k], fields))

\* one pass of the loop body; indexes are 0-based
FillItem(k, fields, acc, matching) ==
    IF matching = {}
    THEN IF Skippable(list_of_itemnames[k]) THEN FillItems(k + 1, fields, acc)
         ELSE [err |-> "KeyError", val |-> acc]
    ELSE IF list_of_itemnames[k] # "referencefrequency"
    THEN FillItems(k + 1, fields,
                   (list_of_itemnames[k] :> IntItem(Least(matching) - 1)) @@ acc)
    ELSE FillDefault(k, fields,
                     (list_of_itemnames[k] :> IntItem(Least(matching) - 1)) @@ acc,
                     Split(fields[Least(matching)], "="))

\* "There is a default value for the reference frequency that we also need to save"
FillDefault(k, fields, acc, halves) ==
    IF Len(halves) # 2
       \/ ParseFloat(SelectSeq(halves[2], IsNumberChar)).err # "none"
    THEN [err |-> "ValueError", val |-> acc]
    ELSE FillItems(k + 1, fields,
                   ("default_referencefrequency" :>
                        FloatItem(ParseFloat(SelectSeq(halves[2], IsNumberChar)).val))
                       @@ acc)

parse_formatstring(string) ==
    FillItems(1, Split(RemoveChar(Lower(string), " "), ","), <<>>)

(***************************************************************************)
(* Skymodel.__init__: one data line                                        *)
(***************************************************************************)
\* get_item: only IndexError is caught; a name that is no key of self.items
\* raises KeyError, and a float used as list index raises TypeError
get_item(itemname, inputfields, its) ==
    IF itemname \notin DOMAIN its THEN Raise("KeyError")
    ELSE IF its[itemname].type # "int" THEN Raise("TypeError")
    ELSE IF its[itemname].val >= Len(inputfields) THEN Ok(<<>>)
    ELSE Ok(Strip(inputfields[its[itemname].val + 1], {" "}))

\* IsSkipped as it would be without the test for lines of commas only
IsSkipped_HashOnly(line) == StartsWith(line, <<"#">>)

\* "Skip comments"
IsSkipped(line) == StartsWith(line, <<"#">>) \/ RemoveChar(line, ",") = <<>>

\* NewPatch as it would be without the check for a sneaky source
NewPatch_Unchecked(patch_name, inputfields, its, elems) ==
    Try(Patch(get_item("ra", inputfields, its).val,
              get_item("dec", inputfields, its).val),
        LAMBDA patch : Ok((patch_name :> patch) @@ elems))

\* the branch "New patch"
NewPatch(patch_name, inputfields, its, elems) ==
    IF get_item("i", inputfields, its).val # <<>> THEN Raise("ValueError")
    ELSE Try(Patch(get_item("ra", inputfields, its).val,
                   get_item("dec", inputfields, its).val),
             LAMBDA patch : Ok((patch_name :> patch) @@ elems))

\* "Check if a reference frequency has been given or if we use the default"
ReferenceFrequency(inputfields, its) ==
    Except(ParseFloat(get_item("referencefrequency", inputfields, its).val),
           "ValueError",
           get_item("default_referencefrequency", inputfields, its))

\* LogSIOf as it would be if the field were lowered before the comparison
LogSIOf_AnyCase(field) ==
    IF field.err = "KeyError" THEN TRUE ELSE Lower(field.val) = <<"t","r","u","e">>

\* get_item("logarithmicsi") == "true", and True on KeyError
LogSIOf(field) ==
    IF field.err = "KeyError" THEN TRUE ELSE field.val = <<"t","r","u","e">>

\* "Fill in whether the spectral index is logarithmic"
LogSI(inputfields, its) == LogSIOf(get_item("logarithmicsi", inputfields, its))

\* the branch "Add the source"
AddSource(patch_name, inputfields, its, elems) ==
    Try(ReferenceFrequency(inputfields, its), LAMBDA reference_frequency :
    Try(ParseFloat(get_item("i", inputfields, its).val), LAMBDA brightness :
    Try(get_item("spectralindex", inputfields, its), LAMBDA spectral_index :
    Try(add_source(elems[patch_name],
                   get_item("name", inputfields, its).val,
                   get_item("ra", inputfields, its).val,
                   get_item("dec", inputfields, its).val,
                   brightness, reference_frequency, spectral_index,
                   LogSI(inputfields, its)),
        LAMBDA patch : Ok([elems EXCEPT ![patch_name] = patch])))))

\* the body of the loop for a line that is not skipped, given its patch name
Dispatch(patch_name, inputfields, its, elems) ==
    IF patch_name \notin DOMAIN elems
    THEN NewPatch(patch_name, inputfields, its, elems)
    ELSE AddSource(patch_name, inputfields, its, elems)

\* self.elements after the line, or the exception it raises
ProcessLine(line, its, elems) ==
    Dispatch(get_item("patch", Split(line, ","), its).val, Split(line, ","), its, elems)

(***************************************************************************)
(* The files read: header lines and data lines                             *)
(***************************************************************************)
\* the cells of the header line
\* Name, Patch,Ra,Dec,I,ReferenceFrequency='60e6',SpectralIndex,LogarithmicSI
HeaderCells ==
    << <<"N","a","m","e">>,
       <<" ","P","a","t","c","h">>,
       <<"R","a">>,
       <<"D","e","c">>,
       <<"I">>,
       <<"R","e","f","e","r","e","n","c","e","F","r","e","q","u","e","n","c","y","=","'","6","0","e","6","'">>,
       <<"S","p","e","c","t","r","a","l","I","n","d","e","x">>,
       <<"L","o","g","a","r","i","t","h","m","i","c","S","I">> >>

\* the header line with the cells at the positions in dropped left out
RECURSIVE KeptCells(_, _)
KeptCells(k, dropped) ==
    IF k > Len(HeaderCells) THEN <<>>
    ELSE (IF k \in dropped THEN <<>> ELSE <<HeaderCells[k]>>) \o KeptCells(k + 1, dropped)

HeaderWithout(dropped) == Join(KeptCells(1, dropped), <<",">>) \o <<"\n">>

\* a header line whose reference frequency cell carries no default
HeaderNoDefault ==
    <<"N","a","m","e",",","P","a","t","c","h",",","R","a",",","D","e","c",",","I",",","R","e","f","e","r","e","n","c","e","F","r","e","q","u","e","n","c","y",",","S","p","e","c","t","r","a","l","I","n","d","e","x",",","L","o","g","a","r","i","t","h","m","i","c","S","I","\n">>

Headers ==
    {HeaderWithout(d) : d \in {{}, {1}, {2}, {3}, {4}, {5}, {6}, {7}, {8}, {7, 8},
                               {3, 7, 8}, {5, 7, 8}}}
        \cup {HeaderNoDefault, <<>>}

Row(fields) == Join(fields, <<",">>)

S1 == <<"s","1">>
S2 == <<"s","2">>
S3 == <<"s","3">>
P1 == <<"P","1">>
P2 == <<"P","2">>
P3 == <<"P","3">>
RA1 == <<"0","5",":","1","2",":","3","0">>
RA2 == <<"-","0","1",":","0","0",":","0","0">>
DEC1 == <<"+","4","1",".","3","0",".","0","0">>
DEC0 == <<"0","0",".","3","0",".","0","0">>
DECM == <<"-","0","1",".","3","0",".","0","0">>
F6 == <<"6","e","6">>
LowerTrue == <<"t","r","u","e">>

CommentLines ==
    { <<"#"," ","c">>,
      Row(<<<<"#">> \o S1, P1, RA1, DEC1, <<"2">>, F6, <<"[","1","]">>, LowerTrue>>) }

BlankLines == { <<>>, <<",",",",",",",",",",",",",">> }

PatchLines ==
    { Row(<<<<>>, P1, RA1, DEC1, <<>>, <<>>, <<>>, <<>>>>),
      Row(<<<<>>, <<" ">> \o P2, RA2, DEC0>>),
      Row(<<<<>>, P3, <<"0","5",":","1","2">>, DEC1, <<>>, <<>>, <<>>, <<>>>>) }

SourceLines ==
    { Row(<<S1, P1, RA1, DEC1, <<"2">>, F6, <<"[","1","]">>, LowerTrue>>),
      Row(<<S2, P1, RA1, DEC1, <<"3">>, F6, <<"[","2","]">>, <<"f","a","l","s","e">>>>),
      Row(<<S1, P1, RA1, DEC1, <<"2">>, <<>>, <<"[","1","]">>, LowerTrue>>),
      Row(<<S2, P1, RA1, DEC1, <<"2">>, <<"a","b","c">>, <<"[","1","]">>, LowerTrue>>),
      Row(<<S1, P1, RA1, DEC1, <<"2">>, F6, <<"[","1","]">>, <<"T","r","u","e">>>>),
      Row(<<S2, P1, RA1, DEC1, <<"2">>, F6, <<"[","1","]">>, <<"T","R","U","E">>>>),
      Row(<<S1, P1, RA1, DEC1, <<"2">>, F6, <<"[","a","]">>, LowerTrue>>),
      Row(<<S2, P1, RA1, DEC1, <<"2">>, F6, <<>>, LowerTrue>>),
      Row(<<S2, P1, RA1, DEC1, <<"2">>, F6, <<" ">>, LowerTrue>>),
      Row(<<S1, P1, RA1, DEC1, <<"2">>, F6, <<"[","]">>>>),
      Row(<<S2, P1, RA1, DEC1, <<"2">>, F6, <<"[","2",",","3","]">>, LowerTrue>>),
      Row(<<S3, P2, RA2, DECM, <<"2">>, F6, <<"[","1","]">>, LowerTrue>>),
      Row(<<S3, P2, RA2, DECM, <<"x">>, F6, <<"[","1","]">>, LowerTrue>>),
      Row(<<S3, P2, RA2, DECM, <<"2">>, <<"0">>, <<"[","1","]">>, LowerTrue>>),
      Row(<<S1, P3, RA1, DEC1, <<"2">>, F6, <<"[","1","]">>, LowerTrue>>) }

Lines == CommentLines \cup BlankLines \cup {<<" ">>} \cup PatchLines \cup SourceLines

(***************************************************************************)
(* Skymodel.__init__ and the calls of a source's brightness function       *)
(***************************************************************************)
NoCall == [patch |-> <<>>, source |-> <<>>, frequency |-> 0, out |-> Raise("nocall")]

Init ==
    /\ pc = "header"
    /\ formatstring = <<>>
    /\ items = <<>>
    /\ elements = <<>>
    /\ inputline = <<>>
    /\ error = "none"
    /\ result = NoCall

\* the header has been parsed: on to the data lines, or out with the exception
HeaderParsed(string, parsed) ==
    /\ formatstring' = string
    /\ items' = parsed.val
    /\ error' = parsed.err
    /\ pc' = IF parsed.err = "none" THEN "rows" ELSE "error"

\* self.parse_formatstring(f.readline())
ParseFormatString ==
    /\ pc = "header"
    /\ \E string \in Headers : HeaderParsed(string, parse_formatstring(string))
    /\ UNCHANGED <<elements, inputline, result>>

\* a line that is skipped
SkipLine ==
    /\ pc = "rows"
    /\ \E line \in Lines :
         /\ IsSkipped(line)
         /\ inputline' = line
    /\ UNCHANGED <<pc, formatstring, items, elements, error, result>>

\* the line has been handled: an exception leaves __init__ and self.elements
\* as it was
RowHandled(line, outcome) ==
    /\ inputline' = line
    /\ elements' = IF outcome.err = "none" THEN outcome.val ELSE elements
    /\ error' = outcome.err
    /\ pc' = IF outcome.err = "none" THEN "rows" ELSE "error"

\* a line handled by the branch "New patch" or "Add the source"
ReadRow ==
    /\ pc = "rows"
    /\ \E line \in Lines :
         /\ ~IsSkipped(line)
         /\ RowHandled(line, ProcessLine(line, items, elements))
    /\ UNCHANGED <<formatstring, items, result>>

\* the file is exhausted: __init__ returns the Skymodel
EndOfFile ==
    /\ pc = "rows"
    /\ pc' = "done"
    /\ inputline' = <<>>
    /\ UNCHANGED <<formatstring, items, elements, error, result>>

\* source.I(v) for v a whole number k of decades above the reference frequency
Called(p, s, source, k) ==
    result' = [patch |-> p, source |-> s,
               frequency |-> source.reference_frequency * Pow(10, k),
               out |-> I(source, source.reference_frequency * Pow(10, k))]

\* a caller evaluates a source's brightness function on the returned Skymodel
CallBrightness ==
    /\ pc = "done"
    /\ \E p \in DOMAIN elements :
         \E s \in DOMAIN elements[p].elements :
           \E k \in 0..MaxDecades : Called(p, s, elements[p].elements[s], k)
    /\ UNCHANGED <<pc, formatstring, items, elements, inputline, error>>

Next == ParseFormatString \/ SkipLine \/ ReadRow \/ EndOfFile \/ CallBrightness

Spec == Init /\ [][Next]_vars

(***************************************************************************)
(* Vocabulary of the properties                                            *)
(***************************************************************************)
\* the header line normalized and cut into cells
CellsOf(header) == Split(RemoveChar(Lower(header), " "), ",")

\* no cell of the header contains the canonical name
HeaderLacks(header, itemname) ==
    \A j \in 1..Len(CellsOf(header)) : ~Contains(Chars(itemname), CellsOf(header)[j])

RequiredNames == {"name", "patch", "ra", "dec", "i", "referencefrequency"}

\* the trimmed text of a field of a data line under the column map of the
\* header; empty when the line is short or the field has no column
RowField(itemname, line) ==
    IF itemname \in DOMAIN items /\ items[itemname].type = "int"
       /\ items[itemname].val < Len(Split(line, ","))
    THEN Strip(Split(line, ",")[items[itemname].val + 1], {" "})
    ELSE <<>>

\* a line that starts with #, is empty, or consists of commas only
IsCommentOrBlank(line) ==
    \/ line # <<>> /\ line[1] = "#"
    \/ \A k \in 1..Len(line) : line[k] = ","

\* this step reads the data line inputline'
LineRead == pc = "rows" /\ pc' # "done"

\* this step reads a row whose patch has been defined: a source row
SourceRowRead ==
    /\ LineRead
    /\ ~IsCommentOrBlank(inputline')
    /\ RowField("patch", inputline') \in DOMAIN elements

\* this step reads a row whose patch has not been defined
NewPatchRowRead ==
    /\ LineRead
    /\ ~IsCommentOrBlank(inputline')
    /\ RowField("patch", inputline') \notin DOMAIN elements

IsNumber(text) == ParseFloat(text).err = "none"

\* coordinates and brightness of the row are well formed
WellFormedRow(line) ==
    /\ parse_right_ascension(RowField("ra", line)).err = "none"
    /\ parse_declination(RowField("dec", line)).err = "none"
    /\ IsNumber(RowField("i", line))

\* the source of the row read is in the catalog after the step
SourceStored ==
    /\ pc' = "rows"
    /\ RowField("patch", inputline') \in DOMAIN elements'
    /\ RowField("name", inputline')
           \in DOMAIN elements'[RowField("patch", inputline')].elements

StoredSource ==
    elements'[RowField("patch", inputline')].elements[RowField("name", inputline')]

\* the entries of a spectral index text
Entries(spectral_index) == Split(Strip(spectral_index, {"[", "]"}), ",")

\* some entry of the coefficient list is text that is no number
HasMalformedEntry(spectral_index) ==
    \E k \in 1..Len(Entries(spectral_index)) :
        /\ Entries(spectral_index)[k] # <<>>
        /\ ~IsNumber(Entries(spectral_index)[k])

\* a brightness function has been called, on the source result names
Called_ ==
    /\ pc = "done"
    /\ result.out.err # "nocall"
    /\ result.patch \in DOMAIN elements
    /\ result.source \in DOMAIN elements[result.patch].elements

CalledSource == elements[result.patch].elements[result.source]

(***************************************************************************)
(* C1                                                                      *)
(***************************************************************************)
\* C1: a row with a non-empty brightness field whose patch has not been
\* defined aborts the parse with an error and stores nothing; a patch comes
\* into the catalog only by a row with an empty brightness field, and a
\* source is stored only under a patch that was in the catalog before its row
C1_PatchDefinedBeforeSources ==
    [][ /\ (NewPatchRowRead /\ RowField("i", inputline') # <<>>)
            => (pc' = "error" /\ error' # "none" /\ elements' = elements)
        /\ LineRead =>
             \A p \in (DOMAIN elements') \ (DOMAIN elements) :
                /\ elements'[p].elements = <<>>
                /\ RowField("i", inputline') = <<>>
                /\ RowField("patch", inputline') = p
      ]_vars

\* a source row for a patch never defined has aborted a parse in which another
\* patch had been defined
C1_Witness ==
    /\ pc = "error"
    /\ error = "ValueError"
    /\ elements # <<>>
    /\ RowField("i", inputline) = <<"2">>
    /\ RowField("patch", inputline) = P3

(***************************************************************************)
(* C2                                                                      *)
(***************************************************************************)
\* C2: a source row whose referencefrequency field is blank or no number is
\* stored with the default reference frequency of the header; the parse
\* goes on
C2_DefaultReferenceFrequency ==
    [][ (/\ SourceRowRead
         /\ ~IsNumber(RowField("referencefrequency", inputline'))
         /\ WellFormedRow(inputline')
         /\ "spectralindex" \in DOMAIN items)
        => /\ SourceStored
           /\ StoredSource.reference_frequency = items["default_referencefrequency"].val
      ]_vars

(***************************************************************************)
(* C3                                                                      *)
(***************************************************************************)
\* C3: once a header that has no cell matching some required name has been
\* read, the parse has aborted with an error, no data line has been read and
\* no patch exists
C3_MissingRequiredAborts ==
    (pc # "header" /\ \E n \in RequiredNames : HeaderLacks(formatstring, n))
        => (pc = "error" /\ error # "none" /\ elements = <<>> /\ inputline = <<>>)

\* the header without the Dec cell has aborted the parse
C3_Witness ==
    /\ pc = "error"
    /\ formatstring = HeaderWithout({4})
    /\ HeaderLacks(formatstring, "dec")

(***************************************************************************)
(* C4                                                                      *)
(***************************************************************************)
\* C4: under the full header, with one patch defined, every well-formed source
\* row for that patch is parsed and leaves exactly that one patch, whose
\* sources are those it had and the one named in the row; under any header a
\* source row changes no patch but the one it names
C4_OnePatchWithItsSources ==
    [][ /\ (/\ formatstring = HeaderWithout({})
            /\ SourceRowRead
            /\ Cardinality(DOMAIN elements) = 1
            /\ WellFormedRow(inputline'))
           => /\ pc' = "rows"
              /\ DOMAIN elements' = DOMAIN elements
              /\ \A p \in DOMAIN elements :
                   DOMAIN elements'[p].elements =
                       DOMAIN elements[p].elements \cup {RowField("name", inputline')}
        /\ (SourceRowRead /\ pc' = "rows")
           => /\ SourceStored
              /\ \A p \in (DOMAIN elements) \ {RowField("patch", inputline')} :
                   elements'[p] = elements[p]
      ]_vars

(***************************************************************************)
(* C5                                                                      *)
(***************************************************************************)
\* C5 as stated: the source of a row is logarithmic iff its logarithmicsi
\* field equals "true" whatever the case of its letters, and logarithmic when
\* the header has no logarithmicsi column
C5_CaseInsensitiveTrue ==
    [][ (SourceRowRead /\ SourceStored)
        => StoredSource.logSI =
             IF "logarithmicsi" \in DOMAIN items
             THEN Lower(RowField("logarithmicsi", inputline')) = LowerTrue
             ELSE TRUE
      ]_vars

\* C5 amended: the source of a row is logarithmic iff its logarithmicsi field
\* is exactly the lower-case text "true", and logarithmic when the header has
\* no logarithmicsi column
C5_ExactLowerCaseTrue ==
    [][ (SourceRowRead /\ SourceStored)
        => StoredSource.logSI =
             IF "logarithmicsi" \in DOMAIN items
             THEN RowField("logarithmicsi", inputline') = LowerTrue
             ELSE TRUE
      ]_vars

\* a row whose logarithmicsi field is "True" has been stored as a linear source
C5_Witness ==
    /\ pc = "rows"
    /\ formatstring = HeaderWithout({})
    /\ RowField("logarithmicsi", inputline) = <<"T","r","u","e">>
    /\ P1 \in DOMAIN elements
    /\ S1 \in DOMAIN elements[P1].elements
    /\ ~elements[P1].elements[S1].logSI

(***************************************************************************)
(* C6                                                                      *)
(***************************************************************************)
\* C6: a header that lacks only spectralindex and/or logarithmicsi is
\* accepted, and under it a well-formed source row is parsed and stored
C6_OptionalColumnsTolerated ==
    [][ /\ (/\ pc = "header"
            /\ formatstring' \in {HeaderWithout({7}), HeaderWithout({8}),
                                  HeaderWithout({7, 8})})
           => pc' = "rows"
        /\ (/\ SourceRowRead
            /\ {"spectralindex", "logarithmicsi"} \ DOMAIN items # {}
            /\ IsNumber(RowField("referencefrequency", inputline'))
            /\ WellFormedRow(inputline'))
           => SourceStored
      ]_vars

ClaimedDeclination(text) ==
    LET fields == Split(Strip(RemoveChar(text, " "), {"+"}), ".")
        d == ParseInt(fields[1]).val
        m == ParseInt(fields[2]).val
        sec == ParseFloat(fields[3]).val
    IN  (IF d < 0 THEN -1 ELSE 1) * (Abs(d) * 3600 + m * 60 + sec)

\* C8: the declination of a patch and of a source is
\* sign * (|d| + m/60 + s/3600) of the dec field of its row, the sign being -1
\* for a negative degree field and +1 otherwise, also for a degree field of 0
C8_DeclinationSign ==
    [][ /\ (NewPatchRowRead /\ pc' = "rows")
           => elements'[RowField("patch", inputline')].dec
                  = ClaimedDeclination(RowField("dec", inputline'))
        /\ (SourceRowRead /\ SourceStored)
           => StoredSource.dec = ClaimedDeclination(RowField("dec", inputline'))
      ]_vars

(***************************************************************************)
(* C9                                                                      *)
(***************************************************************************)
\* C9: a call of the brightness function of a source whose spectral index
\* text is empty succeeds, and returns the reference brightness for a
\* logarithmic source
C9_EmptySpectralIndex ==
    (/\ Called_
     /\ CalledSource.spectral_index = <<>>
     /\ CalledSource.reference_frequency # 0)
    => /\ result.out.err = "none"
       /\ CalledSource.logSI =>
            result.out.val = [mant |-> CalledSource.brightness, exp10 |-> 0]

(***************************************************************************)
(* C10                                                                     *)
(***************************************************************************)
\* C10: a data line that starts with #, is empty, or consists of commas only
\* raises no error and leaves the parse state and the catalog as they were
C10_CommentsAndBlanksSkipped ==
    [][ (LineRead /\ IsCommentOrBlank(inputline'))
        => /\ pc' = "rows"
           /\ error' = error
           /\ elements' = elements
           /\ items' = items
      ]_vars

\* a comment line that holds a source row for a defined patch has been read
\* and the parse goes on
C10_Witness ==
    /\ pc = "rows"
    /\ inputline # <<>>
    /\ inputline[1] = "#"
    /\ RowField("patch", inputline) \in DOMAIN elements
    /\ RowField("i", inputline) # <<>>

====
